---- MODULE Spec2Model ----
(***************************************************************************)
(* The media pipeline of steam_showcase_bot: handle_file downloads an      *)
(* upload and schedules _maybe_start_prepare_task, which runs              *)
(* prepare_and_resize_copy and slice_video_inplace_with_gifs in executor   *)
(* threads, cleans the working directories and notifies the submitter.     *)
(* Several runs share one filesystem (gifs/, prepared_gifs/, sliced_gifs/).*)
(***************************************************************************)
EXTENDS Integers, Sequences, FiniteSets, TLC

\* ------------------------------------------------------------------ bounds
NRuns == 2          \* submissions in progress at once (SpecConc)
MaxClock == 1       \* seconds between the first message and the last
MaxDelFail == 2     \* deletions that fail in one behaviour (Spec)
MaxNotifyFail == 2  \* notifier calls that fail in one behaviour (Spec)
MaxFixFail == 1     \* terminator patches that fail in one behaviour (Spec)
MaxLen == 3         \* bytes in a file handed to the terminator patch
MaxFixCalls == 2    \* applications of the terminator patch to one file
WSpread == 6        \* widths tried on each side of the canonical width
MaxH == 40          \* heights tried by the rescaler
MaxCalls == 4       \* calls made on the session of the bot

\* ------------------------------------------------------- program constants
CanonW == 750       \* ffmpeg_utils.py: scale='if(gt(iw,750),750,iw)', w != 750
part_w == 150       \* ffmpeg_utils.py:190
NParts == 5         \* ffmpeg_utils.py:198  range(5)
EvenFactor == 2     \* ffmpeg_utils.py:36   the -2 of the scale filter
GifTrailer == 59    \* ffmpeg_utils.py:161  b'\x3B'
ExtIntroducer == 33 \* ffmpeg_utils.py:163  b'\x21'

Runs == 1..NRuns

\* ------------------------------------------------------------------ inputs
\* Submitter ids, file base names (as character sequences, so that the glob
\* patterns can be matched as prefixes) and extensions of the uploads.
Users == {1}
Bases == {<<1>>, <<1, 2>>}
Exts == {".mp4", ".gif"}
\* Source geometries: wider and narrower than the canonical width; of the
\* narrow ones, one has an odd height and one an odd width.
SrcDims == {<<900, 600>>, <<600, 301>>, <<601, 300>>}

\* Messages: whether the animation and the video field are set, and the
\* extension of the document's file name ("" when the message has no
\* document): one with all three fields, a video with a document, a
\* document of an accepted and one of an unsupported name, and a message
\* with no media.  The media files of a message bear one name.
Msg(a, v, d) == [anim |-> a, vid |-> v, doc |-> d]
Messages ==
    {Msg(TRUE, TRUE, ".txt"), Msg(FALSE, TRUE, ".gif"), Msg(FALSE, FALSE, ".gif"),
     Msg(FALSE, FALSE, ".txt"), Msg(FALSE, FALSE, "")}
MsgBase == <<1>>
NoMessage == Msg(FALSE, FALSE, "")
NotHandled == [msg |-> NoMessage, chosen |-> "", downloads |-> 0, tasks |-> 0]

NoStem == <<0, 0, <<>>>>
NoDims == <<0, 0>>

\* ---------------------------------------------------------------- contents
\* What a file holds.  w, h: geometry; x: horizontal offset of the file's
\* left edge in the rescaled frame; by: the run whose operation wrote it;
\* parts: for an archive, the (index, offset, writer) of each image in it.
Vid(w, h, x, by) == [t |-> "vid", w |-> w, h |-> h, x |-> x, by |-> by, parts |-> {}]
Raw(by) == [t |-> "raw", w |-> 0, h |-> 0, x |-> 0, by |-> by, parts |-> {}]
Junk(by) == [t |-> "junk", w |-> 0, h |-> 0, x |-> 0, by |-> by, parts |-> {}]
Gif(x, w, h, by) == [t |-> "gif", w |-> w, h |-> h, x |-> x, by |-> by, parts |-> {}]
DirEntry(by) == [t |-> "dir", w |-> 0, h |-> 0, x |-> 0, by |-> by, parts |-> {}]
Zip(parts, by) == [t |-> "zip", w |-> 0, h |-> 0, x |-> 0, by |-> by, parts |-> parts]

\* ------------------------------------------------------------------- paths
\* A path is <<directory, stem, suffix>>; the stem is <<user, ts, base>>,
\* the f'{user_id}_{ts}_{fname}' of handle_file without its extension.
PartSuf(i) ==
    CASE i = 1 -> "__tmp_part1.mp4"
      [] i = 2 -> "_part2.mp4"
      [] i = 3 -> "_part3.mp4"
      [] i = 4 -> "_part4.mp4"
      [] OTHER -> "_part5.mp4"

GifSuf(i) ==
    CASE i = 1 -> "_gifs/part1.gif"
      [] i = 2 -> "_gifs/part2.gif"
      [] i = 3 -> "_gifs/part3.gif"
      [] i = 4 -> "_gifs/part4.gif"
      [] OTHER -> "_gifs/part5.gif"

GifSufs == {GifSuf(i) : i \in 1..NParts}
Mp4Sufs == {".mp4"} \cup {PartSuf(i) : i \in 1..NParts}

UploadPath(s, e) == <<"gifs", s, e>>
PreparedPath(s) == <<"prepared_gifs", s, ".mp4">>
\* dest = prepared_dir / src_path.name, for an upload of any extension.
PreparedDest(s, e) == <<"prepared_gifs", s, e>>
TmpOutPath(s) == <<"prepared_gifs", s, "_750w.mp4">>
SlicedPath(s) == <<"sliced_gifs", s, ".mp4">>
TmpFirstPath(s) == <<"sliced_gifs", s, PartSuf(1)>>
PartOut(s, i) == <<"sliced_gifs", s, PartSuf(i)>>
GifDirPath(s) == <<"sliced_gifs", s, "_gifs">>
GifPath(s, i) == <<"sliced_gifs", s, GifSuf(i)>>
ArchivePath(s) == <<"sliced_gifs", s, "_gifs.zip">>

\* The file name of a stem as a character sequence: user, '_', ts, '_', base.
\* User ids and timestamps are single tokens (the timestamp has a fixed
\* width, the id is followed by '_'), so one name is a prefix of another
\* only through the base.
StemName(s) == <<s[1], s[2]>> \o s[3]

IsPrefix(a, b) == Len(a) <= Len(b) /\ SubSeq(b, 1, Len(a)) = a

\* ------------------------------------------------------------------- state
VARIABLES
    clock,      \* datetime.now() at second resolution (bot.py:155), counted
                \* from the second of the first message
    ffmpeg,     \* bool(FFMPEG_BIN), fixed at import (ffmpeg_utils.py:11)
    fs,         \* the filesystem: path -> contents, for the paths that exist
    pc,         \* per run: where its coroutine or its executor thread stands
    stem,       \* per run: <<user_id, ts, base>> of its working file names
    ext,        \* per run: src_path.suffix
    idx,        \* per run: the loop variable i of the slicer's two loops
    probed,     \* per run: (w, h) returned by get_width_height
    archive_path, \* per run: "unset", "None" or "Path" (bot.py:253)
    exc,        \* per run: the exception last raised by a stage ("" if none)
    sent,       \* per run: the notifier calls made, [kind, ok], in order
    delFail,    \* per run: how many of its deletions failed
    delLeft,    \* deletions that may still fail in this behaviour
    notifyLeft, \* notifier calls that may still fail in this behaviour
    tried,      \* per run: the paths it attempted to delete
    cmds,       \* per run: the encode invocations of its slicer, in order
    delivered,  \* per run: the contents of the document it sent, if any
    source,     \* per run: the (w, h) of the video uploaded, if it is one
    handled,    \* per message: what handle_file made of it: the message, the
                \* field it chose, the downloads and the tasks it started
    del_seq,    \* per run: the deletions of its failure cleanups, in order:
                \* a sequence of sets, the entries of one set in any order
    fixLeft,    \* terminator patches that may still fail in this behaviour
    gif_bytes,  \* the bytes of the file _fix_gif_terminator is applied to
    fix_log,    \* its applications so far: [before, after, ret], in order
    scale_in,   \* the (w, h) of the clip handed to the rescaler
    scale_out,  \* <<status, w, h>> of its output: "none" before the call,
                \* "ok" with the geometry written, "error" if it raised
    session,    \* bot.session: who made it and whether it is closed
    sess_log    \* the calls made on it: [op, before, after, raised], in order

\* The state of a utility function called on its own.
util_vars == <<gif_bytes, fix_log, scale_in, scale_out, session, sess_log>>

vars == <<clock, ffmpeg, fs, pc, stem, ext, idx, probed, archive_path, exc,
          sent, delFail, delLeft, notifyLeft, tried, cmds, delivered,
          source, handled, del_seq, fixLeft, util_vars>>

NoFile == [t |-> "none", w |-> 0, h |-> 0, x |-> 0, by |-> 0, parts |-> {}]

\* ------------------------------------------------------- filesystem helpers
Exists(f, p) == p \in DOMAIN f
Read(f, p) == IF p \in DOMAIN f THEN f[p] ELSE NoFile
Write(f, p, c) == [q \in DOMAIN f \cup {p} |-> IF q = p THEN c ELSE f[q]]
Remove(f, P) == [q \in DOMAIN f \ P |-> f[q]]
\* Path.replace: the source takes the place of the destination.
Rename(f, from, to) == Remove(Write(f, to, f[from]), {from})
IsVideo(f, p) == Exists(f, p) /\ f[p].t = "vid"

\* The entries below a directory entry (the images of a <stem>_gifs).
Children(f, d) ==
    IF d[3] = "_gifs"
    THEN {q \in DOMAIN f : q[1] = d[1] /\ q[2] = d[2] /\ q[3] \in GifSufs}
    ELSE {}

\* Removing a set of entries: shutil.rmtree for a directory, unlink otherwise.
WithChildren(f, P) == P \cup UNION {Children(f, d) : d \in P}

\* Path.glob(f"{stem}*") in sliced_gifs/ (bot.py:264): the top-level entries
\* whose name starts with the stem's name.  Every entry name is a stem name
\* followed by a suffix, and no base of Bases ends in a suffix, so an entry
\* matches when the pattern's stem is a prefix of the entry's stem.
GlobStar(f, s) ==
    {q \in DOMAIN f : /\ q[1] = "sliced_gifs"
                      /\ q[3] \notin GifSufs
                      /\ IsPrefix(StemName(s), StemName(q[2]))}

\* Path.glob(f"{stem}*.mp4") in sliced_gifs/ (bot.py:319).
GlobStarMp4(f, s) == {q \in GlobStar(f, s) : q[3] \in Mp4Sufs}

\* ------------------------------------------------------------ the rescaler
\* scale='if(gt(iw,750),750,iw)':-2 (ffmpeg_utils.py:36): the width is the
\* smaller of iw and 750; the height keeps the aspect ratio, rounded to the
\* nearest multiple of 2 (ffmpeg: av_rescale(w, ih, iw * 2) * 2, which
\* rounds halves away from zero).
RoundDiv(a, b) == (2 * a + b) \div (2 * b)
\* A filter that would scale every clip to the canonical width.
ScaleWUpscaling(iw) == CanonW
ScaleW(iw) == IF iw > CanonW THEN CanonW ELSE iw
\* A filter that would round the height to a multiple of 4.
ScaleHMultipleOf4(iw, ih) == RoundDiv(ScaleW(iw) * ih, iw * 4) * 4
ScaleH(iw, ih) == RoundDiv(ScaleW(iw) * ih, iw * EvenFactor) * EvenFactor

\* libx264 with -pix_fmt yuv420p (ffmpeg_utils.py:37-40) encodes only frames
\* of even width and even height.
Encodable(w, h) == w > 0 /\ h > 0 /\ w % 2 = 0 /\ h % 2 = 0

\* -------------------------------------------------------------- exceptions
\* The routing the slicer would have if make_gif_from_video let the error of
\* the terminator patch out.
CatchPatchRaises(site) ==
    CASE site \in {"ans_tool", "ans_fmt", "ans_prepared", "ans_slice_err",
                   "ans_warn_src", "ans_warn_prep", "ans_sending",
                   "ans_sendfail", "ans_outer", "ans_prep_err"} -> "pass"
      [] site = "ans_doc" -> "ans_sendfail"
      [] site \in {"prep_resize", "prep_replace"} -> "prep_rm_tmp"
      [] site \in {"prep_copy", "prep_rm_tmp"} -> "prep_cleanup"
      [] site = "to_sliced" -> "ans_outer"
      [] site \in {"sl_probe", "sl_crop", "sl_replace", "sl_mkdir", "sl_gif",
                   "gif_fix"} -> "slice_cleanup"
      [] site = "sl_zip" -> "ok_rm_src"
      [] OTHER -> "escaped"

\* The routing the slicer would have if a failed crop were ignored and the
\* slicer went on to the renders.
CatchCropIgnored(site) ==
    CASE site \in {"ans_tool", "ans_fmt", "ans_prepared", "ans_slice_err",
                   "ans_warn_src", "ans_warn_prep", "ans_sending",
                   "ans_sendfail", "ans_outer", "ans_prep_err"} -> "pass"
      [] site = "ans_doc" -> "ans_sendfail"
      [] site \in {"prep_resize", "prep_replace"} -> "prep_rm_tmp"
      [] site \in {"prep_copy", "prep_rm_tmp"} -> "prep_cleanup"
      [] site = "to_sliced" -> "ans_outer"
      [] site = "sl_crop" -> "sl_mkdir"
      [] site \in {"sl_probe", "sl_replace", "sl_mkdir", "sl_gif"}
           -> "slice_cleanup"
      [] site = "sl_zip" -> "ok_rm_src"
      [] site = "gif_fix" -> "pass"
      [] OTHER -> "escaped"

\* The routing the handler would have if the notifier calls of its branches
\* and except clauses were not wrapped in a try of their own.
CatchBareAnswers(site) ==
    CASE site = "ans_doc" -> "ans_sendfail"
      [] site \in {"prep_resize", "prep_replace"} -> "prep_rm_tmp"
      [] site \in {"prep_copy", "prep_rm_tmp"} -> "prep_cleanup"
      [] site = "to_sliced" -> "ans_outer"
      [] site \in {"sl_probe", "sl_crop", "sl_replace", "sl_mkdir", "sl_gif"}
           -> "slice_cleanup"
      [] site = "sl_zip" -> "ok_rm_src"
      [] site = "gif_fix" -> "pass"
      [] OTHER -> "escaped"

\* The routing the handler would have if the except clause of
\* prepare_and_resize_copy were entered again by the raise that ends it.
CatchPrepareLoops(site) ==
    CASE site \in {"ans_tool", "ans_fmt", "ans_prepared", "ans_slice_err",
                   "ans_warn_src", "ans_warn_prep", "ans_sending",
                   "ans_sendfail", "ans_outer", "ans_prep_err"} -> "pass"
      [] site = "ans_doc" -> "ans_sendfail"
      [] site \in {"prep_resize", "prep_replace", "prep_rm_tmp"} -> "prep_rm_tmp"
      [] site = "prep_copy" -> "prep_cleanup"
      [] site = "to_sliced" -> "ans_outer"
      [] site \in {"sl_probe", "sl_crop", "sl_replace", "sl_mkdir", "sl_gif"}
           -> "slice_cleanup"
      [] site = "sl_zip" -> "ok_rm_src"
      [] site = "gif_fix" -> "pass"
      [] OTHER -> "escaped"

\* Where control continues when the statement at `site` raises: the pc of
\* the innermost enclosing except clause; "pass" when that clause only logs
\* and execution continues after the try; "escaped" when no clause encloses it.
Catch(site) ==
    CASE site \in {"ans_tool", "ans_fmt", "ans_prepared", "ans_slice_err",
                   "ans_warn_src", "ans_warn_prep", "ans_sending",
                   "ans_sendfail", "ans_outer", "ans_prep_err"} -> "pass"
      [] site = "ans_doc" -> "ans_sendfail"                 \* bot.py:343
      [] site \in {"prep_resize", "prep_replace"} -> "prep_rm_tmp" \* ffmpeg_utils.py:85
      [] site \in {"prep_copy", "prep_rm_tmp"} -> "prep_cleanup"   \* bot.py:366
      [] site = "to_sliced" -> "ans_outer"                  \* bot.py:359
      [] site \in {"sl_probe", "sl_crop", "sl_replace", "sl_mkdir", "sl_gif"}
           -> "slice_cleanup"                               \* bot.py:254
      [] site = "sl_zip" -> "ok_rm_src"                     \* ffmpeg_utils.py:241
      [] site = "gif_fix" -> "pass"                         \* ffmpeg_utils.py:144
      [] OTHER -> "escaped"

Raise(site, next) == IF Catch(site) = "pass" THEN next ELSE Catch(site)

\* ------------------------------------------------------------ initial state
InitRuns ==
    /\ clock = 0
    /\ fs = << >>
    /\ pc = [r \in Runs |-> "idle"]
    /\ stem = [r \in Runs |-> NoStem]
    /\ ext = [r \in Runs |-> ""]
    /\ idx = [r \in Runs |-> 0]
    /\ probed = [r \in Runs |-> NoDims]
    /\ archive_path = [r \in Runs |-> "unset"]
    /\ exc = [r \in Runs |-> ""]
    /\ sent = [r \in Runs |-> << >>]
    /\ delFail = [r \in Runs |-> 0]
    /\ tried = [r \in Runs |-> {}]
    /\ cmds = [r \in Runs |-> << >>]
    /\ delivered = [r \in Runs |-> NoFile]
    /\ del_seq = [r \in Runs |-> << >>]
    /\ handled = [r \in Runs |-> NotHandled]
    /\ source = [r \in Runs |-> NoDims]

\* bot = Bot(token=TOKEN) (bot.py:48): the session the Bot made for itself.
BotSession == [origin |-> "bot", closed |-> FALSE]

SessIdle ==
    /\ session = BotSession
    /\ sess_log = << >>

\* No utility function is being called on its own.
UtilIdle ==
    /\ gif_bytes = << >>
    /\ fix_log = << >>
    /\ scale_in = NoDims
    /\ scale_out = <<"none", 0, 0>>
    /\ SessIdle

\* One submission; the tool is present or not; deletions and notifier
\* calls may fail, up to the bounds.
Init ==
    /\ InitRuns
    /\ UtilIdle
    /\ ffmpeg \in BOOLEAN
    /\ delLeft = MaxDelFail
    /\ notifyLeft = MaxNotifyFail
    /\ fixLeft = MaxFixFail

\* Concurrent video submissions with the tool present; only stages fail.
InitConc ==
    /\ InitRuns
    /\ UtilIdle
    /\ ffmpeg = TRUE
    /\ delLeft = 0
    /\ notifyLeft = 0
    /\ fixLeft = 0

\* ----------------------------------------------------- steps shared by all
Goto(r, l) == pc' = [pc EXCEPT ![r] = l]

\* The statements of a cleanup, in the order of the code: each element of
\* `order` is the set of entries one statement attempts; those that exist
\* are attempted.
InOrder(r, order) ==
    LET there == [k \in 1..Len(order) |-> order[k] \cap DOMAIN fs]
    IN del_seq' = [del_seq EXCEPT ![r] =
                      @ \o SelectSeq(there, LAMBDA S : S # {})]

\* The sets of deletions that may fail together, given the budget k.
FailSets(S, k) == IF k = 0 THEN {{}} ELSE {F \in SUBSET S : Cardinality(F) <= k}

\* A cleanup that would stop at the first deletion that fails: what failed
\* has been attempted, the rest has not.
UnlinkStopsAtFailure(r, P) ==
    LET there == P \cap DOMAIN fs
    IN \E F \in FailSets(there, delLeft) :
        /\ delLeft' = delLeft - Cardinality(F)
        /\ fs' = IF F = {} THEN Remove(fs, WithChildren(fs, there)) ELSE fs
        /\ delFail' = [delFail EXCEPT ![r] = @ + Cardinality(F)]
        /\ tried' = [tried EXCEPT ![r] =
                        @ \cup IF F = {} THEN WithChildren(fs, there) ELSE F]

\* `try: if p.exists(): p.unlink() ... except Exception: logger.exception`
\* for every p of P (shutil.rmtree for a directory): each existing entry is
\* attempted; the entries of F are those whose deletion fails and stay.
Unlink(r, P) ==
    LET there == P \cap DOMAIN fs
    IN \E F \in FailSets(there, delLeft) :
        /\ delLeft' = delLeft - Cardinality(F)
        /\ fs' = Remove(fs, WithChildren(fs, there \ F))
        /\ delFail' = [delFail EXCEPT ![r] = @ + Cardinality(F)]
        /\ tried' = [tried EXCEPT ![r] = @ \cup WithChildren(fs, there)]

NotifyFails(r) == Cardinality({k \in 1..Len(sent[r]) : ~sent[r][k].ok})

\* `try: await message.answer(...) except Exception: pass` at the pc `site`:
\* the call reaches the submitter (ok) or raises; control continues at
\* `next`, or where Catch sends the exception.
Answer(r, site, kind, next) ==
    /\ pc[r] = site
    /\ \E ok \in BOOLEAN :
        /\ ok \/ notifyLeft > 0
        /\ notifyLeft' = IF ok THEN notifyLeft ELSE notifyLeft - 1
        /\ sent' = [sent EXCEPT ![r] = Append(@, [kind |-> kind, ok |-> ok])]
        /\ Goto(r, IF ok THEN next ELSE Raise(site, next))
    /\ UNCHANGED <<util_vars, source, handled, del_seq, fixLeft, clock, ffmpeg, fs, stem, ext, idx, probed, archive_path,
                   exc, delFail, delLeft, tried, cmds, delivered>>

\* Whether str(e) of a stage's exception names a working file: the
\* diagnostics of ffmpeg name its input and output (ffmpeg_utils.py:56);
\* a CalledProcessError prints its command, the last arguments of which
\* are str(p) and str(out) (ffmpeg_utils.py:121, 209, 136-139); an OSError
\* of copy2 or replace prints its file names (ffmpeg_utils.py:70, 82, 213;
\* bot.py:247).  The width error prints only the width (ffmpeg_utils.py:188).
MentionsPath(e) ==
    e \in {"RescaleError", "ProbeError", "EncodeError", "RenderError",
           "CopyError", "ReplaceError"}

\* The text of a notifier call: the failure messages of bot.py:288, 362 and
\* 383 end in {e}, the exception of the failed stage; the others are fixed.
TextHasPath(kind, e) == kind \in {"SliceError", "PrepError"} /\ MentionsPath(e)

\* A stage raises at `site` with the exception `e`.
Throw(r, site, e) ==
    /\ exc' = [exc EXCEPT ![r] = e]
    /\ Goto(r, Catch(site))

\* ------------------------------------------------------------- handle_file
\* handle_file (bot.py:147-424) for an accepted message: the upload is
\* downloaded to gifs/<user>_<ts>_<fname> and the run is scheduled with
\* asyncio.create_task; a failed download schedules nothing.  Runs are
\* numbered in the order of their messages; `now` is the time the handler
\* reads, which never runs backwards.
Submit(r, E, D) ==
    /\ pc[r] = "idle"
    /\ \A q \in Runs : q < r => pc[q] # "idle"
    /\ \E now \in (IF r = 1 THEN {0} ELSE clock..MaxClock), u \in Users, b \in Bases, e \in E,
          d \in D, ok \in BOOLEAN :
        LET s == <<u, now, b>>
            body == IF e = ".mp4" THEN Vid(d[1], d[2], 0, r) ELSE Raw(r)
        IN /\ clock' = now
           /\ stem' = [stem EXCEPT ![r] = s]
           /\ ext' = [ext EXCEPT ![r] = e]
           /\ source' = [source EXCEPT ![r] = IF e = ".mp4" THEN d ELSE NoDims]
           /\ IF ok
              THEN /\ fs' = Write(fs, UploadPath(s, e), body)
                   /\ Goto(r, "start")
              ELSE /\ fs' = fs
                   /\ Goto(r, "hf_error")
    /\ UNCHANGED <<util_vars, handled, del_seq, fixLeft, ffmpeg, idx, probed, archive_path, exc, sent,
                   delFail, delLeft, notifyLeft, tried, cmds, delivered>>

HandleFile(r) == Submit(r, Exts, SrcDims)
\* The same handler, for uploads that are videos wider than 750.
HandleVideo(r) == Submit(r, {".mp4"}, {d \in SrcDims : d[1] > CanonW})

\* A handler that would await the run it starts: it takes the next message
\* only when every earlier run has ended.
CanHandleAfterRuns(r) ==
    /\ pc[r] = "idle"
    /\ \A q \in Runs : q < r => pc[q] \in {"hf_error", "hf_rejected", "done"}

\* The dispatcher calls handle_file for a message as soon as the handler of
\* the message before it has returned; the runs that handler started with
\* asyncio.create_task (bot.py:394, 402, 414) are not awaited.
CanHandle(r) ==
    /\ pc[r] = "idle"
    /\ \A q \in Runs : q < r => pc[q] # "idle"

\* The field handle_file takes the file from (bot.py:387, 397, 405).
Chosen(m) ==
    IF m.anim THEN "animation"
    ELSE IF m.vid THEN "video"
    ELSE IF m.doc # "" THEN "document"
    ELSE "none"

\* fname.lower().endswith(('.gif', '.mp4', '.webm')) (bot.py:410); the mime
\* type of a document with another name is taken to be neither gif nor video.
DocAccepted(e) == e \in {".gif", ".mp4", ".webm"}

\* The suffix of the file name of the chosen field: an animation and a
\* video are .mp4 (bot.py:388, 398).
ChosenExt(m) == IF Chosen(m) \in {"animation", "video"} THEN ".mp4" ELSE m.doc

\* handle_file (bot.py:387-420) for any message: the first of animation,
\* video and document that is set is downloaded and a run is scheduled for
\* it; a document with an unsupported name is answered and nothing else; a
\* message with no media is answered with the prompt.  An exception of the
\* download is caught at bot.py:422 and no run is scheduled.
HandleMessage(r) ==
    /\ CanHandle(r)
    /\ \E m \in Messages, now \in (IF r = 1 THEN {0} ELSE clock..MaxClock),
          u \in Users, d \in {g \in SrcDims : g[1] > CanonW}, ok \in BOOLEAN :
        LET s == <<u, now, MsgBase>>
            e == ChosenExt(m)
            accepted == \/ Chosen(m) \in {"animation", "video"}
                        \/ Chosen(m) = "document" /\ DocAccepted(m.doc)
            body == IF e = ".mp4" THEN Vid(d[1], d[2], 0, r) ELSE Raw(r)
        IN /\ clock' = now
           /\ IF accepted
              THEN /\ stem' = [stem EXCEPT ![r] = s]
                   /\ ext' = [ext EXCEPT ![r] = e]
                   /\ source' = [source EXCEPT ![r] =
                                    IF e = ".mp4" THEN d ELSE NoDims]
                   /\ fs' = IF ok THEN Write(fs, UploadPath(s, e), body) ELSE fs
                   /\ Goto(r, IF ok THEN "start" ELSE "hf_error")
              ELSE /\ ok
                   /\ UNCHANGED <<stem, ext, fs, source>>
                   /\ Goto(r, "hf_rejected")
           /\ handled' = [handled EXCEPT ![r] =
                             [msg |-> m, chosen |-> Chosen(m),
                              downloads |-> IF accepted THEN 1 ELSE 0,
                              tasks |-> IF accepted /\ ok THEN 1 ELSE 0]]
    /\ UNCHANGED <<util_vars, del_seq, fixLeft, ffmpeg, idx, probed, archive_path,
                   exc, sent, delFail, delLeft, notifyLeft, tried, cmds,
                   delivered>>

\* ----------------------------------------------- _maybe_start_prepare_task
src_path(r) == UploadPath(stem[r], ext[r])

\* The start of a handler that would hand an upload of any extension to
\* the prepare stage.
StartCheckAnyFormat(r) ==
    /\ pc[r] = "start"
    /\ IF ~ffmpeg
       THEN Unlink(r, {src_path(r)}) /\ Goto(r, "ans_tool")
       ELSE /\ Goto(r, "prep_copy")
            /\ UNCHANGED <<fs, delFail, delLeft, tried>>
    /\ UNCHANGED <<util_vars, source, handled, del_seq, fixLeft, clock, ffmpeg, stem, ext, idx, probed, archive_path,
                   exc, sent, notifyLeft, cmds, delivered>>

\* The start of a handler that would answer "tool missing" and leave the
\* upload where it is.
StartCheckKeepsUpload(r) ==
    /\ pc[r] = "start"
    /\ IF ~ffmpeg
       THEN Goto(r, "ans_tool") /\ UNCHANGED <<fs, delFail, delLeft, tried>>
       ELSE IF ext[r] # ".mp4"
            THEN Unlink(r, {src_path(r)}) /\ Goto(r, "ans_fmt")
            ELSE /\ Goto(r, "prep_copy")
                 /\ UNCHANGED <<fs, delFail, delLeft, tried>>
    /\ UNCHANGED <<util_vars, source, handled, del_seq, fixLeft, clock, ffmpeg, stem, ext, idx, probed, archive_path, exc,
                   sent, notifyLeft, cmds, delivered>>

\* bot.py:187-232, up to the first await: the tool check and the format
\* check, each deleting the upload before it answers.  The import of
\* ffmpeg_utils is taken to have succeeded (FFMPEG_UTILS_AVAILABLE,
\* bot.py:35-41), and is_ffmpeg_available() only reads FFMPEG_BIN.
StartCheck(r) ==
    /\ pc[r] = "start"
    /\ IF ~ffmpeg
       THEN Unlink(r, {src_path(r)}) /\ Goto(r, "ans_tool")
       ELSE IF ext[r] # ".mp4"
            THEN Unlink(r, {src_path(r)}) /\ Goto(r, "ans_fmt")
            ELSE /\ Goto(r, "prep_copy")
                 /\ UNCHANGED <<fs, delFail, delLeft, tried>>
    /\ UNCHANGED <<util_vars, source, handled, del_seq, fixLeft, clock, ffmpeg, stem, ext, idx, probed, archive_path, exc,
                   sent, notifyLeft, cmds, delivered>>

AnsTool(r) == Answer(r, "ans_tool", "ToolMissing", "done")         \* bot.py:202
AnsFmt(r) == Answer(r, "ans_fmt", "Unsupported", "done")           \* bot.py:227

\* ------------------------------------------------- prepare_and_resize_copy
\* shutil.copy2(src_path, dest) (ffmpeg_utils.py:70): raises when the source
\* is missing; an I/O error leaves a partial destination.  A copy that is
\* no .mp4 is returned as it is (ffmpeg_utils.py:74-76).
PrepCopy(r) ==
    /\ pc[r] = "prep_copy"
    /\ LET src == src_path(r)
           dest == PreparedDest(stem[r], ext[r])
       IN IF ~Exists(fs, src)
          THEN fs' = fs /\ Throw(r, "prep_copy", "CopyError")
          ELSE \/ /\ fs' = Write(fs, dest, [fs[src] EXCEPT !.by = r])
                  /\ Goto(r, IF ext[r] # ".mp4" THEN "ans_prepared" ELSE "prep_resize")
                  /\ exc' = exc
               \/ /\ fs' = Write(fs, dest, Junk(r))
                  /\ Throw(r, "prep_copy", "CopyError")
    /\ UNCHANGED <<util_vars, source, handled, del_seq, fixLeft, clock, ffmpeg, stem, ext, idx, probed, archive_path, sent,
                   notifyLeft, delFail, delLeft, tried, cmds, delivered>>

\* A prepare stage that would encode straight onto the copy.
PrepResizeInPlace(r) ==
    /\ pc[r] = "prep_resize"
    /\ LET dest == PreparedPath(stem[r])
       IN \/ /\ ffmpeg /\ IsVideo(fs, dest)
             /\ Encodable(ScaleW(fs[dest].w), ScaleH(fs[dest].w, fs[dest].h))
             /\ fs' = Write(fs, dest,
                            Vid(ScaleW(fs[dest].w), ScaleH(fs[dest].w, fs[dest].h),
                                fs[dest].x, r))
             /\ Goto(r, "ans_prepared")
             /\ exc' = exc
          \/ /\ fs' = IF ffmpeg /\ Exists(fs, dest)
                      THEN Write(fs, dest, Junk(r)) ELSE fs
             /\ Throw(r, "prep_resize", "RescaleError")
    /\ UNCHANGED <<util_vars, source, handled, del_seq, fixLeft, clock, ffmpeg, stem, ext, idx, probed, archive_path,
                   sent, notifyLeft, delFail, delLeft, tried, cmds, delivered>>

\* resize_mp4_to_width_750(dest, tmp_out) (ffmpeg_utils.py:80, 18-56): the
\* encode writes the rescaled clip, or fails, leaving tmp_out partial; with
\* no ffmpeg it raises before anything is run (ffmpeg_utils.py:26-27).
PrepResize(r) ==
    /\ pc[r] = "prep_resize"
    /\ LET dest == PreparedPath(stem[r])
           tmp_out == TmpOutPath(stem[r])
       IN \/ /\ ffmpeg /\ IsVideo(fs, dest)
             /\ Encodable(ScaleW(fs[dest].w), ScaleH(fs[dest].w, fs[dest].h))
             /\ fs' = Write(fs, tmp_out,
                            Vid(ScaleW(fs[dest].w), ScaleH(fs[dest].w, fs[dest].h),
                                fs[dest].x, r))
             /\ Goto(r, "prep_replace")
             /\ exc' = exc
          \/ /\ fs' = IF ffmpeg /\ Exists(fs, dest)
                      THEN Write(fs, tmp_out, Junk(r)) ELSE fs
             /\ Throw(r, "prep_resize", "RescaleError")
    /\ UNCHANGED <<util_vars, source, handled, del_seq, fixLeft, clock, ffmpeg, stem, ext, idx, probed, archive_path, sent,
                   notifyLeft, delFail, delLeft, tried, cmds, delivered>>

\* tmp_out.replace(dest) (ffmpeg_utils.py:82).
PrepReplace(r) ==
    /\ pc[r] = "prep_replace"
    /\ LET dest == PreparedPath(stem[r])
           tmp_out == TmpOutPath(stem[r])
       IN IF Exists(fs, tmp_out)
          THEN /\ fs' = Rename(fs, tmp_out, dest)
               /\ Goto(r, "ans_prepared")
               /\ exc' = exc
          ELSE fs' = fs /\ Throw(r, "prep_replace", "ReplaceError")
    /\ UNCHANGED <<util_vars, source, handled, del_seq, fixLeft, clock, ffmpeg, stem, ext, idx, probed, archive_path, sent,
                   notifyLeft, delFail, delLeft, tried, cmds, delivered>>

\* The except clause of prepare_and_resize_copy (ffmpeg_utils.py:85-92):
\* tmp_out is removed if it exists, and the exception is raised again.
PrepRmTmp(r) ==
    /\ pc[r] = "prep_rm_tmp"
    /\ Unlink(r, {TmpOutPath(stem[r])})
    /\ Goto(r, Catch("prep_rm_tmp"))
    /\ UNCHANGED <<util_vars, source, handled, del_seq, fixLeft, clock, ffmpeg, stem, ext, idx, probed, archive_path, exc,
                   sent, notifyLeft, cmds, delivered>>

\* bot.py:366-381: the prepared candidate and the upload are removed.
PrepCleanup(r) ==
    /\ pc[r] = "prep_cleanup"
    /\ Unlink(r, {PreparedPath(stem[r]), src_path(r)})
    /\ InOrder(r, <<{PreparedPath(stem[r])}, {src_path(r)}>>)
    /\ Goto(r, "ans_prep_err")
    /\ UNCHANGED <<util_vars, source, handled, fixLeft, clock, ffmpeg, stem, ext, idx, probed, archive_path, exc,
                   sent, notifyLeft, cmds, delivered>>

AnsPrepErr(r) == Answer(r, "ans_prep_err", "PrepError", "done")    \* bot.py:383
AnsPrepared(r) == Answer(r, "ans_prepared", "Prepared", "to_sliced") \* bot.py:238

\* bot.py:243-253: the prepared file is copied into sliced_gifs/ and the
\* slicer is handed to the executor; an exception goes to bot.py:359.
ToSliced(r) ==
    /\ pc[r] = "to_sliced"
    /\ LET prepared == PreparedPath(stem[r])
           slised_copy == SlicedPath(stem[r])
       IN IF ~Exists(fs, prepared)
          THEN fs' = fs /\ Throw(r, "to_sliced", "CopyError")
          ELSE \/ /\ fs' = Write(fs, slised_copy, [fs[prepared] EXCEPT !.by = r])
                  /\ Goto(r, "sl_probe")
                  /\ exc' = exc
               \/ /\ fs' = Write(fs, slised_copy, Junk(r))
                  /\ Throw(r, "to_sliced", "CopyError")
    /\ UNCHANGED <<util_vars, source, handled, del_seq, fixLeft, clock, ffmpeg, stem, ext, idx, probed, archive_path, sent,
                   notifyLeft, delFail, delLeft, tried, cmds, delivered>>

AnsOuter(r) == Answer(r, "ans_outer", "SliceError", "done")        \* bot.py:362

\* ------------------------------------------- slice_video_inplace_with_gifs
\* A width check that would only reject clips wider than the canonical one.
WidthOkAtMost(w) == w <= CanonW

\* The width the slicer accepts (ffmpeg_utils.py:187).
WidthOk(w) == w = CanonW

\* get_width_height(p) and the width check (ffmpeg_utils.py:186-188).
SlProbe(r) ==
    /\ pc[r] = "sl_probe"
    /\ LET p == SlicedPath(stem[r])
       IN \/ /\ IsVideo(fs, p)
             /\ probed' = [probed EXCEPT ![r] = <<fs[p].w, fs[p].h>>]
             /\ IF ~WidthOk(fs[p].w)
                THEN idx' = idx /\ Throw(r, "sl_probe", "GeometryError")
                ELSE /\ idx' = [idx EXCEPT ![r] = 0]
                     /\ Goto(r, "sl_crop")
                     /\ exc' = exc
          \/ /\ UNCHANGED <<probed, idx>>
             /\ Throw(r, "sl_probe", "ProbeError")
    /\ UNCHANGED <<util_vars, source, handled, del_seq, fixLeft, clock, ffmpeg, fs, stem, ext, archive_path, sent,
                   notifyLeft, delFail, delLeft, tried, cmds, delivered>>

\* The crop of ffmpeg, as the tool does it: the rectangle must lie inside
\* the input frame; the output's left edge is the input's plus the offset.
CropFits(c, x, w, h) == c.t = "vid" /\ x + w <= c.w /\ h <= c.h
Crop(c, x, w, h, by) == Vid(w, h, c.x + x, by)

\* Crop offsets that would make neighbouring bands overlap.
CropXOverlapping(i) == i * (part_w - 50)

\* Crop outputs of a slicer that would write the first band over its input.
CropOutInPlace(s, i) == IF i = 0 THEN SlicedPath(s) ELSE PartOut(s, i + 1)

\* The x of the i-th crop, i = 0..4 (ffmpeg_utils.py:199).
CropX(i) == i * part_w
\* The output of the i-th crop (ffmpeg_utils.py:200).
CropOut(s, i) == IF i = 0 THEN TmpFirstPath(s) ELSE PartOut(s, i + 1)

\* One pass of the crop loop (ffmpeg_utils.py:198-210).
SlCrop(r) ==
    /\ pc[r] = "sl_crop"
    /\ LET p == SlicedPath(stem[r])
           i == idx[r]
           x == CropX(i)
           h == probed[r][2]
           out == CropOut(stem[r], i)
           cmd == [op |-> "crop", x |-> x, w |-> part_w, h |-> h,
                   part |-> i + 1, ok |-> TRUE, fix |-> ""]
       IN \/ /\ Exists(fs, p) /\ CropFits(fs[p], x, part_w, h)
             /\ cmds' = [cmds EXCEPT ![r] = Append(@, cmd)]
             /\ fs' = Write(fs, out, Crop(fs[p], x, part_w, h, r))
             /\ idx' = [idx EXCEPT ![r] = i + 1]
             /\ Goto(r, IF i + 1 = NParts THEN "sl_replace" ELSE "sl_crop")
             /\ exc' = exc
          \/ /\ cmds' = [cmds EXCEPT ![r] = Append(@, [cmd EXCEPT !.ok = FALSE])]
             /\ fs' = IF Exists(fs, p) THEN Write(fs, out, Junk(r)) ELSE fs
             /\ idx' = idx
             /\ Throw(r, "sl_crop", "EncodeError")
    /\ UNCHANGED <<util_vars, source, handled, del_seq, fixLeft, clock, ffmpeg, stem, ext, probed, archive_path, sent,
                   notifyLeft, delFail, delLeft, tried, delivered>>

\* tmp_first.replace(p) (ffmpeg_utils.py:213).
SlReplace(r) ==
    /\ pc[r] = "sl_replace"
    /\ LET p == SlicedPath(stem[r])
           tmp_first == TmpFirstPath(stem[r])
       IN IF Exists(fs, tmp_first)
          THEN /\ fs' = Rename(fs, tmp_first, p)
               /\ Goto(r, "sl_mkdir")
               /\ exc' = exc
          ELSE fs' = fs /\ Throw(r, "sl_replace", "ReplaceError")
    /\ UNCHANGED <<util_vars, source, handled, del_seq, fixLeft, clock, ffmpeg, stem, ext, idx, probed, archive_path, sent,
                   notifyLeft, delFail, delLeft, tried, cmds, delivered>>

\* gif_dir.mkdir(exist_ok=True) (ffmpeg_utils.py:217-218).
SlMkdir(r) ==
    /\ pc[r] = "sl_mkdir"
    /\ LET gif_dir == GifDirPath(stem[r])
       IN fs' = IF Exists(fs, gif_dir) THEN fs ELSE Write(fs, gif_dir, DirEntry(r))
    /\ idx' = [idx EXCEPT ![r] = 0]
    /\ Goto(r, "sl_gif")
    /\ UNCHANGED <<util_vars, source, handled, del_seq, fixLeft, clock, ffmpeg, stem, ext, probed, archive_path, exc, sent,
                   notifyLeft, delFail, delLeft, tried, cmds, delivered>>

\* Part paths of a slicer that would render the bands from right to left.
PartPathReversed(s, i) ==
    IF i = NParts - 1 THEN SlicedPath(s) ELSE PartOut(s, NParts - i)

\* part_paths[i] after line 214: the original path for the first part.
PartPath(s, i) == IF i = 0 THEN SlicedPath(s) ELSE PartOut(s, i + 1)

\* One pass of the render loop (ffmpeg_utils.py:221-224): make_gif_from_video
\* writes gif_dir/part<i>.gif from part_paths[i-1], or the encode fails
\* (ffmpeg_utils.py:134-139).  After a successful encode it applies
\* _fix_gif_terminator to the image, which changes the trailer the encoder
\* wrote ("True") or raises on an I/O error ("raise", ffmpeg_utils.py:141-145).
SlGif(r) ==
    /\ pc[r] = "sl_gif"
    /\ LET i == idx[r]
           part == PartPath(stem[r], i)
           gif_dir == GifDirPath(stem[r])
           gif_path == GifPath(stem[r], i + 1)
           cmd == [op |-> "gif", x |-> 0, w |-> 0, h |-> 0,
                   part |-> i + 1, ok |-> TRUE, fix |-> ""]
           next == IF i + 1 = NParts THEN "sl_zip" ELSE "sl_gif"
       IN \/ /\ IsVideo(fs, part) /\ Exists(fs, gif_dir)
             /\ fs' = Write(fs, gif_path,
                            Gif(fs[part].x, fs[part].w, fs[part].h, r))
             /\ \E fix \in {"True"} \cup (IF fixLeft > 0 THEN {"raise"} ELSE {}) :
                  /\ cmds' = [cmds EXCEPT ![r] = Append(@, [cmd EXCEPT !.fix = fix])]
                  /\ fixLeft' = IF fix = "raise" THEN fixLeft - 1 ELSE fixLeft
                  /\ IF fix = "raise" /\ Catch("gif_fix") # "pass"
                     THEN idx' = idx /\ Throw(r, "gif_fix", "PatchError")
                     ELSE /\ idx' = [idx EXCEPT ![r] = i + 1]
                          /\ Goto(r, next)
                          /\ exc' = exc
          \/ /\ cmds' = [cmds EXCEPT ![r] = Append(@, [cmd EXCEPT !.ok = FALSE])]
             /\ fs' = IF Exists(fs, part) /\ Exists(fs, gif_dir)
                      THEN Write(fs, gif_path, Junk(r)) ELSE fs
             /\ idx' = idx
             /\ fixLeft' = fixLeft
             /\ Throw(r, "sl_gif", "RenderError")
    /\ UNCHANGED <<util_vars, source, handled, del_seq, clock, ffmpeg, stem, ext, probed, archive_path,
                   sent, notifyLeft, delFail, delLeft, tried, delivered>>

\* What shutil.make_archive puts in the archive: every image of gif_dir.
ArchiveOf(f, s) ==
    {<<i, f[GifPath(s, i)].x, f[GifPath(s, i)].by>> :
        i \in {j \in 1..NParts : Exists(f, GifPath(s, j))}}

\* shutil.make_archive (ffmpeg_utils.py:230-233, 241-243): on an exception
\* the slicer logs it and returns None.
SlZip(r) ==
    /\ pc[r] = "sl_zip"
    /\ LET gif_dir == GifDirPath(stem[r])
           zip == ArchivePath(stem[r])
       IN \/ /\ Exists(fs, gif_dir)
             /\ fs' = Write(fs, zip, Zip(ArchiveOf(fs, stem[r]), r))
             /\ Goto(r, "sl_rmtree")
             /\ UNCHANGED <<archive_path, exc>>
          \/ /\ fs' = IF Exists(fs, gif_dir) THEN Write(fs, zip, Junk(r)) ELSE fs
             /\ archive_path' = [archive_path EXCEPT ![r] = "None"]
             /\ Throw(r, "sl_zip", "ArchiveError")
    /\ UNCHANGED <<util_vars, source, handled, del_seq, fixLeft, clock, ffmpeg, stem, ext, idx, probed, sent, notifyLeft,
                   delFail, delLeft, tried, cmds, delivered>>

\* shutil.rmtree(gif_dir) in its own try, then return Path(archive_path)
\* (ffmpeg_utils.py:234-240).
SlRmtree(r) ==
    /\ pc[r] = "sl_rmtree"
    /\ Unlink(r, {GifDirPath(stem[r])})
    /\ archive_path' = [archive_path EXCEPT ![r] = "Path"]
    /\ Goto(r, "ok_rm_src")
    /\ UNCHANGED <<util_vars, source, handled, del_seq, fixLeft, clock, ffmpeg, stem, ext, idx, probed, exc, sent,
                   notifyLeft, cmds, delivered>>

\* ------------------------------------------------ after a failed slicing
\* A cleanup that would remove the three named files and skip the glob.
SliceCleanupNoGlob(f, r) ==
    {SlicedPath(stem[r]), PreparedPath(stem[r]), src_path(r)}

\* bot.py:254-286: the sliced copy, everything glob(stem + '*') finds in
\* sliced_gifs/, the prepared file and the upload are removed, each in its
\* own try.  No await lies between them.
SliceCleanupSet(f, r) ==
    {SlicedPath(stem[r])} \cup GlobStar(f, stem[r])
        \cup {PreparedPath(stem[r]), src_path(r)}

\* The order of its statements: the sliced copy (bot.py:257-262), the
\* matches of the glob as the directory lists them (bot.py:263-274), the
\* prepared file (bot.py:275-280), the upload (bot.py:281-286).
SliceCleanupOrder(f, r) ==
    <<{SlicedPath(stem[r])}, GlobStar(f, stem[r]) \ {SlicedPath(stem[r])},
      {PreparedPath(stem[r])}, {src_path(r)}>>

SliceCleanup(r) ==
    /\ pc[r] = "slice_cleanup"
    /\ Unlink(r, SliceCleanupSet(fs, r))
    /\ InOrder(r, SliceCleanupOrder(fs, r))
    /\ Goto(r, "ans_slice_err")
    /\ UNCHANGED <<util_vars, source, handled, fixLeft, clock, ffmpeg, stem, ext, idx, probed, archive_path, exc,
                   sent, notifyLeft, cmds, delivered>>

AnsSliceErr(r) == Answer(r, "ans_slice_err", "SliceError", "done") \* bot.py:288

\* --------------------------------------------- after the slicer returned
\* bot.py:294-303: the upload is removed; a failure is reported.
OkRmSrc(r) ==
    /\ pc[r] = "ok_rm_src"
    /\ Unlink(r, {src_path(r)})
    /\ Goto(r, IF delFail'[r] > delFail[r] THEN "ans_warn_src" ELSE "ok_rm_prep")
    /\ UNCHANGED <<util_vars, source, handled, del_seq, fixLeft, clock, ffmpeg, stem, ext, idx, probed, archive_path, exc,
                   sent, notifyLeft, cmds, delivered>>

AnsWarnSrc(r) == Answer(r, "ans_warn_src", "WarnSrc", "ok_rm_prep") \* bot.py:301

\* bot.py:305-314: the prepared file is removed; a failure is reported.
OkRmPrep(r) ==
    /\ pc[r] = "ok_rm_prep"
    /\ Unlink(r, {PreparedPath(stem[r])})
    /\ Goto(r, IF delFail'[r] > delFail[r] THEN "ans_warn_prep" ELSE "ok_glob")
    /\ UNCHANGED <<util_vars, source, handled, del_seq, fixLeft, clock, ffmpeg, stem, ext, idx, probed, archive_path, exc,
                   sent, notifyLeft, cmds, delivered>>

AnsWarnPrep(r) == Answer(r, "ans_warn_prep", "WarnPrep", "ok_glob") \* bot.py:312

\* bot.py:316-334 and 349-350: every glob(stem + '*.mp4') of sliced_gifs/
\* is removed; then the archive is announced if the slicer returned a path
\* and the file exists.
OkGlob(r) ==
    /\ pc[r] = "ok_glob"
    /\ Unlink(r, GlobStarMp4(fs, stem[r]))
    /\ Goto(r, IF archive_path[r] = "Path" /\ Exists(fs, ArchivePath(stem[r]))
               THEN "ans_sending" ELSE "done")
    /\ UNCHANGED <<util_vars, source, handled, del_seq, fixLeft, clock, ffmpeg, stem, ext, idx, probed, archive_path, exc,
                   sent, notifyLeft, cmds, delivered>>

AnsSending(r) == Answer(r, "ans_sending", "Sending", "ans_doc")     \* bot.py:336

\* bot.py:339-344: FSInputFile and answer_document; the document is read
\* from the archive path when it is sent.
AnsDoc(r) ==
    /\ pc[r] = "ans_doc"
    /\ LET archive == ArchivePath(stem[r])
       IN \E ok \in BOOLEAN :
           /\ ok => Exists(fs, archive)
           /\ ok \/ ~Exists(fs, archive) \/ notifyLeft > 0
           /\ notifyLeft' = IF ok \/ ~Exists(fs, archive)
                             THEN notifyLeft ELSE notifyLeft - 1
           /\ sent' = [sent EXCEPT ![r] = Append(@, [kind |-> "Archive", ok |-> ok])]
           /\ delivered' = [delivered EXCEPT ![r] = IF ok THEN fs[archive] ELSE @]
           /\ Goto(r, IF ok THEN "done" ELSE Raise("ans_doc", "done"))
    /\ UNCHANGED <<util_vars, source, handled, del_seq, fixLeft, clock, ffmpeg, fs, stem, ext, idx, probed, archive_path,
                   exc, delFail, delLeft, tried, cmds>>

AnsSendFail(r) == Answer(r, "ans_sendfail", "SendFail", "done")     \* bot.py:346

\* --------------------------------------------------------------- the system
\* The steps of a run once its upload is on disk.
Pipeline(r) ==
    \/ StartCheck(r)
    \/ PrepCopy(r)
    \/ PrepResize(r)
    \/ PrepReplace(r)
    \/ PrepRmTmp(r)
    \/ PrepCleanup(r)
    \/ AnsPrepErr(r)
    \/ AnsPrepared(r)
    \/ ToSliced(r)
    \/ AnsOuter(r)
    \/ SlProbe(r)
    \/ SlCrop(r)
    \/ SlReplace(r)
    \/ SlMkdir(r)
    \/ SlGif(r)
    \/ SlZip(r)
    \/ SlRmtree(r)
    \/ SliceCleanup(r)
    \/ AnsSliceErr(r)
    \/ OkRmSrc(r)
    \/ OkRmPrep(r)
    \/ OkGlob(r)
    \/ AnsSending(r)
    \/ AnsDoc(r)
    \/ AnsSendFail(r)

\* The steps taken only when the tool is missing, the upload is no video or
\* a deletion fails.
Faulty(r) ==
    \/ AnsTool(r)
    \/ AnsFmt(r)
    \/ AnsWarnSrc(r)
    \/ AnsWarnPrep(r)

\* One submission, with every kind of upload and of failure.
Next == HandleFile(1) \/ Pipeline(1) \/ Faulty(1)

Spec == Init /\ [][Next]_vars

\* The steps of a run are statements of one coroutine and of the functions
\* it hands to the executor; the event loop resumes a coroutine whose await
\* has completed, and every external call returns or raises, so a run that
\* can take a step eventually takes one.
SpecLive == Init /\ [][Next]_vars /\ WF_vars(Pipeline(1) \/ Faulty(1))

\* NRuns submissions of videos, handled concurrently.
NextConc == \E r \in Runs : HandleVideo(r) \/ Pipeline(r)

SpecConc == InitConc /\ [][NextConc]_vars

\* NRuns messages of any kind, handled as they arrive, with the tool
\* present; only stages fail.
NextHandle == \E r \in Runs : HandleMessage(r) \/ Pipeline(r) \/ AnsFmt(r)

SpecHandle == InitConc /\ [][NextHandle]_vars

\* ------------------------------------------- the utilities on their own
\* The variables of the runs, which a utility called on its own leaves alone.
run_vars == <<clock, ffmpeg, fs, pc, stem, ext, idx, probed, archive_path, exc,
              sent, delFail, delLeft, notifyLeft, tried, cmds, delivered,
              source, handled, del_seq, fixLeft>>

\* No run exists and nothing can fail in one.
NoRuns ==
    /\ InitRuns
    /\ ffmpeg = TRUE
    /\ delLeft = 0
    /\ notifyLeft = 0
    /\ fixLeft = 0

\* ------------------------------------------------------ _fix_gif_terminator
\* File contents: byte sequences over the two bytes the patch looks for and
\* one other byte.
Bytes == {GifTrailer, ExtIntroducer, 0}
FileContents == UNION {[1..n -> Bytes] : n \in 0..MaxLen}

\* A patch that would swap the two bytes for each other.
FixedBytesSwapping(b) ==
    IF Len(b) = 0 THEN b
    ELSE IF b[Len(b)] = GifTrailer THEN [b EXCEPT ![Len(b)] = ExtIntroducer]
    ELSE IF b[Len(b)] = ExtIntroducer THEN [b EXCEPT ![Len(b)] = GifTrailer]
    ELSE b

\* A patch that would seek to the start of the file before it writes.
FixedBytesAtStart(b) ==
    IF Len(b) = 0 THEN b
    ELSE IF b[Len(b)] = GifTrailer THEN [b EXCEPT ![1] = ExtIntroducer]
    ELSE b

\* The file after _fix_gif_terminator returned (ffmpeg_utils.py:151-170):
\* an empty file is left alone; a last byte 0x3B is overwritten with 0x21.
FixedBytes(b) ==
    IF Len(b) = 0 THEN b
    ELSE IF b[Len(b)] = GifTrailer THEN [b EXCEPT ![Len(b)] = ExtIntroducer]
    ELSE b

\* What it returns (ffmpeg_utils.py:157, 170, 173).
FixReturn(b) == IF Len(b) # 0 /\ b[Len(b)] = GifTrailer THEN "True" ELSE "False"

InitPatch ==
    /\ NoRuns
    /\ gif_bytes \in FileContents
    /\ fix_log = << >>
    /\ scale_in = NoDims
    /\ scale_out = <<"none", 0, 0>>
    /\ SessIdle

\* One call _fix_gif_terminator(gif_path): it returns, or an I/O error is
\* raised (ffmpeg_utils.py:174-176) before the byte was written or after.
FixGifTerminator ==
    /\ Len(fix_log) < MaxFixCalls
    /\ \E ret \in {FixReturn(gif_bytes), "raise"} :
       \E after \in IF ret = "raise" THEN {gif_bytes, FixedBytes(gif_bytes)}
                                     ELSE {FixedBytes(gif_bytes)} :
        /\ gif_bytes' = after
        /\ fix_log' = Append(fix_log, [before |-> gif_bytes, after |-> after,
                                       ret |-> ret])
    /\ UNCHANGED <<run_vars, scale_in, scale_out, session, sess_log>>

SpecPatch == InitPatch /\ [][FixGifTerminator]_vars

\* -------------------------------------------------- resize_mp4_to_width_750
\* The geometries handed to the rescaler: widths around the canonical one
\* and some common ones, heights small and common.
ScaleWidths == ((CanonW - WSpread)..(CanonW + WSpread)) \cup {320, 600, 900, 1280, 1920}
ScaleHeights == (1..MaxH) \cup {301, 600, 1080}

InitScale ==
    /\ NoRuns
    /\ gif_bytes = << >>
    /\ fix_log = << >>
    /\ scale_in \in ScaleWidths \X ScaleHeights
    /\ scale_out = <<"none", 0, 0>>
    /\ SessIdle

\* One call resize_mp4_to_width_750(input, output) (ffmpeg_utils.py:18-56):
\* ffmpeg writes a clip of the geometry the scale filter computes, or fails.
Resize ==
    /\ scale_out[1] = "none"
    /\ LET w == ScaleW(scale_in[1])
           h == ScaleH(scale_in[1], scale_in[2])
       IN \/ Encodable(w, h) /\ scale_out' = <<"ok", w, h>>
          \/ scale_out' = <<"error", 0, 0>>
    /\ UNCHANGED <<run_vars, gif_bytes, fix_log, scale_in, session, sess_log>>

SpecScale == InitScale /\ [][Resize]_vars

\* -------------------------------------- prepare_and_resize_copy on its own
\* prepare_and_resize_copy(src_path, prepared_dir) called on a file of any
\* extension that its caller put in gifs/ (contents written by 0, the
\* caller), or on a path where no file is; with ffmpeg or without.
InitPrepare ==
    /\ UtilIdle
    /\ clock = 0
    /\ ffmpeg \in BOOLEAN
    /\ delLeft \in 0..MaxDelFail
    /\ notifyLeft = 0
    /\ fixLeft = 0
    /\ \E u \in Users, b \in Bases, e \in Exts :
        /\ stem = [r \in Runs |-> IF r = 1 THEN <<u, 0, b>> ELSE NoStem]
        /\ ext = [r \in Runs |-> IF r = 1 THEN e ELSE ""]
        /\ \E d \in SrcDims, there \in BOOLEAN :
            fs = IF there
                 THEN Write(<< >>, UploadPath(<<u, 0, b>>, e),
                            IF e = ".mp4" THEN Vid(d[1], d[2], 0, 0) ELSE Raw(0))
                 ELSE << >>
    /\ pc = [r \in Runs |-> IF r = 1 THEN "prep_copy" ELSE "idle"]
    /\ idx = [r \in Runs |-> 0]
    /\ probed = [r \in Runs |-> NoDims]
    /\ archive_path = [r \in Runs |-> "unset"]
    /\ exc = [r \in Runs |-> ""]
    /\ sent = [r \in Runs |-> << >>]
    /\ delFail = [r \in Runs |-> 0]
    /\ tried = [r \in Runs |-> {}]
    /\ cmds = [r \in Runs |-> << >>]
    /\ delivered = [r \in Runs |-> NoFile]
    /\ del_seq = [r \in Runs |-> << >>]
    /\ handled = [r \in Runs |-> NotHandled]
    /\ source = [r \in Runs |-> IF r = 1 /\ IsVideo(fs, src_path(1))
                                 THEN <<fs[src_path(1)].w, fs[src_path(1)].h>>
                                 ELSE NoDims]

\* The function has returned dest at "ans_prepared" and has raised at
\* "prep_cleanup".
NextPrepare == PrepCopy(1) \/ PrepResize(1) \/ PrepReplace(1) \/ PrepRmTmp(1)

SpecPrepare == InitPrepare /\ [][NextPrepare]_vars

\* ------------------------------------------------- the session of the bot
\* The module makes its Bot at import (bot.py:48) and defines no function
\* on_startup or on_shutdown: the only statement that touches the session
\* is the finally clause of _main (bot.py:493-494).
SessionCall(op, after, raised) ==
    /\ Len(sess_log) < MaxCalls
    /\ session' = after
    /\ sess_log' = Append(sess_log, [op |-> op, before |-> session,
                                     after |-> after, raised |-> raised])
    /\ UNCHANGED <<run_vars, gif_bytes, fix_log, scale_in, scale_out>>

\* A caller puts a session of its own in bot.session.
SupplySession ==
    SessionCall("supply", [origin |-> "external", closed |-> FALSE], "")

\* botmod.on_startup(): the module has no such attribute.
OnStartup == SessionCall("on_startup", session, "AttributeError")

\* botmod.on_shutdown(): the module has no such attribute.
OnShutdown == SessionCall("on_shutdown", session, "AttributeError")

\* finally: await bot.session.close() (bot.py:493-494), once polling ends.
MainFinally == SessionCall("_main", [session EXCEPT !.closed = TRUE], "")

InitSession ==
    /\ NoRuns
    /\ UtilIdle

NextSession == SupplySession \/ OnStartup \/ OnShutdown \/ MainFinally

SpecSession == InitSession /\ [][NextSession]_vars

\* =================================================================== claims
Done(r) == pc[r] = "done"
InProgress(r) == pc[r] \notin {"idle", "hf_error", "hf_rejected", "done"}

\* The notifications that end a run for the submitter.
FailureKinds == {"ToolMissing", "Unsupported", "PrepError", "SliceError", "SendFail"}
Received(r, K) ==
    Cardinality({k \in 1..Len(sent[r]) : sent[r][k].ok /\ sent[r][k].kind \in K})

\* The files a run wrote that are still on disk, and the entries at the
\* paths built from its stem.
WrittenBy(r) == {q \in DOMAIN fs : fs[q].by = r}
AtStem(r) == {q \in DOMAIN fs : q[2] = stem[r]}
CropCmds(r) == SelectSeq(cmds[r], LAMBDA c : c.op = "crop")
GifCmds(r) == SelectSeq(cmds[r], LAMBDA c : c.op = "gif")

\* C1 (as claimed): when a run has ended and none of its notifier calls
\* failed, the submitter has received exactly one terminal notification:
\* the archive or one failure message.
C1_ExactlyOneTerminal ==
    \A r \in Runs :
        Done(r) /\ NotifyFails(r) = 0
            => Received(r, FailureKinds) + Received(r, {"Archive"}) = 1

\* C2 (as claimed): when a run has ended after a stage failed and none of
\* its deletions failed, no file at the run's paths is left.
C2_FailureLeavesNothing ==
    \A r \in Runs :
        Done(r) /\ exc[r] # "" /\ delFail[r] = 0 => AtStem(r) = {}

C4_SuccessLeavesOnlyArchive ==
    \A r \in Runs :
        Done(r) /\ exc[r] = "" /\ archive_path[r] = "Path"
            => /\ delivered[r].t = "zip"
               /\ {e[1] : e \in delivered[r].parts} = 1..NParts
               /\ Cardinality(delivered[r].parts) = NParts
               /\ AtStem(r) = {ArchivePath(stem[r])}

\* C5 (as claimed): with the tool missing a run makes one notifier call, of
\* the missing-tool kind, runs no stage and leaves no file.
C5_ToolMissingLeavesNothing ==
    \A r \in Runs :
        Done(r) /\ ~ffmpeg
            => /\ Len(sent[r]) = 1 /\ sent[r][1].kind = "ToolMissing"
               /\ cmds[r] = << >> /\ exc[r] = "" /\ archive_path[r] = "unset"
               /\ WrittenBy(r) = {}

\* C5 (amended): with the tool missing a run makes one notifier call, of
\* the missing-tool kind, and runs no stage; it attempts to delete the
\* upload, and unless that deletion fails no file of the run is left.
C5_ToolMissingCleanup ==
    \A r \in Runs :
        Done(r) /\ ~ffmpeg
            => /\ Len(sent[r]) = 1 /\ sent[r][1].kind = "ToolMissing"
               /\ cmds[r] = << >> /\ exc[r] = "" /\ archive_path[r] = "unset"
               /\ WrittenBy(r) \subseteq {src_path(r)}
               /\ WrittenBy(r) \subseteq tried[r]
               /\ delFail[r] = 0 => WrittenBy(r) = {}

\* C5 witness: a run on an upload that is no video ended with the tool
\* missing and the upload deleted.
C5_Witness ==
    \E r \in Runs :
        /\ Done(r) /\ ~ffmpeg /\ ext[r] = ".gif"
        /\ delFail[r] = 0 /\ tried[r] = {src_path(r)}

\* C6: no exception leaves _maybe_start_prepare_task: whatever stage,
\* deletion or notifier call fails, no run is ever left by an exception.
C6_NoEscape == \A r \in Runs : pc[r] # "escaped"

\* C6 witness: a run ended normally although a stage, a deletion and the
\* notifier call of its except clause all failed.
C6_Witness ==
    \E r \in Runs :
        /\ Done(r) /\ exc[r] # "" /\ delFail[r] > 0
        /\ Len(sent[r]) > 0 /\ ~sent[r][Len(sent[r])].ok

\* C7 (as claimed): two runs in progress at once never have the same
\* upload, prepared or sliced path.
C7_DistinctWorkingPaths ==
    \A r1, r2 \in Runs :
        r1 # r2 /\ InProgress(r1) /\ InProgress(r2)
            => /\ src_path(r1) # src_path(r2)
               /\ PreparedPath(stem[r1]) # PreparedPath(stem[r2])
               /\ SlicedPath(stem[r1]) # SlicedPath(stem[r2])

\* C8 (as claimed): a run deletes only paths built from its own stem: no
\* cleanup has attempted an entry of another run that is in progress under
\* a different stem.
C8_OnlyOwnPaths ==
    \A r, o \in Runs :
        r # o /\ InProgress(o) /\ stem[o] # stem[r]
            => {q \in tried[r] : q[2] = stem[o]} = {}

\* The entries the slicer of a run has put beside its input.
SlicerOutputs(r) == {q \in AtStem(r) : q[1] = "sliced_gifs" /\ q[3] # ".mp4"}

\* C9: a slicer that probed a width other than 750 fails with the geometry
\* error before any encode: it has issued no command, made no output and,
\* when it raises, its input is still the clip it probed.
C9_WrongWidthNoOutput ==
    \A r \in Runs :
        probed[r] # NoDims /\ probed[r][1] # 750
            => /\ exc[r] = "GeometryError"
               /\ cmds[r] = << >>
               /\ archive_path[r] = "unset"
               /\ SlicerOutputs(r) = {}
               /\ pc[r] = "slice_cleanup"
                    => /\ IsVideo(fs, SlicedPath(stem[r]))
                       /\ <<fs[SlicedPath(stem[r])].w, fs[SlicedPath(stem[r])].h>>
                            = probed[r]

\* C9 witness: the slicer has just raised on a clip 600 wide.
C9_Witness ==
    \E r \in Runs :
        pc[r] = "slice_cleanup" /\ exc[r] = "GeometryError" /\ probed[r][1] = 600

\* The band a crop command cuts, as a half-open interval.
BandLo(c) == c.x
BandHi(c) == c.x + c.w

\* C10: the crops of a slicer are issued left to right, the k-th at offset
\* (k-1)*150 with width 150 and the probed height; once all five have
\* succeeded the bands are [0,150), [150,300), [300,450), [450,600),
\* [600,750): contiguous, disjoint, of total width 750, and the band files
\* hold exactly these bands.
C10_BandsPartition ==
    \A r \in Runs :
        LET c == CropCmds(r)
        IN /\ \A k \in 1..Len(c) :
                /\ c[k].part = k
                /\ <<BandLo(c[k]), BandHi(c[k])>> = <<150 * (k - 1), 150 * k>>
                /\ c[k].h = probed[r][2]
           /\ pc[r] \in {"sl_replace", "sl_mkdir", "sl_gif", "sl_zip", "sl_rmtree"}
                \/ archive_path[r] # "unset"
                => /\ Len(c) = 5
                   /\ BandLo(c[1]) = 0 /\ BandHi(c[5]) = 750
                   /\ \A k \in 1..4 : BandHi(c[k]) = BandLo(c[k + 1])
                   /\ c[1].w + c[2].w + c[3].w + c[4].w + c[5].w = 750
           /\ pc[r] = "sl_replace"
                => \A k \in 1..5 :
                     LET b == Read(fs, CropOut(stem[r], k - 1))
                     IN b.t = "vid" /\ b.x = 150 * (k - 1) /\ b.w = 150
                        /\ b.h = probed[r][2]

\* C10 witness: all five crops of a slicer have succeeded.
C10_Witness == \E r \in Runs : pc[r] = "sl_replace" /\ Len(CropCmds(r)) = 5

\* C11 (as claimed): a run on an upload that is no .mp4 never enters the
\* prepare stage or the slicer; it ends with the unsupported-format message
\* received and nothing of it left in any directory.
C11_NonVideoUnsupported ==
    \A r \in Runs :
        ext[r] \notin {"", ".mp4"}
            => /\ pc[r] \in {"idle", "hf_error", "start", "ans_tool", "ans_fmt", "done"}
               /\ Done(r)
                    => /\ sent[r] = <<[kind |-> "Unsupported", ok |-> TRUE]>>
                       /\ cmds[r] = << >> /\ exc[r] = ""
                       /\ AtStem(r) = {}

\* C11 (amended): a run on an upload that is no .mp4 never enters the
\* prepare stage or the slicer; it makes one notifier call, of the
\* unsupported-format kind when the tool is present and of the missing-tool
\* kind when it is not, writes nothing in prepared_gifs/ or sliced_gifs/ and
\* attempts to delete the upload, which is gone unless that deletion failed.
C11_NonVideoRejected ==
    \A r \in Runs :
        ext[r] \notin {"", ".mp4"}
            => /\ pc[r] \in {"idle", "hf_error", "start", "ans_tool", "ans_fmt", "done"}
               /\ Done(r)
                    => /\ Len(sent[r]) = 1
                       /\ sent[r][1].kind = IF ffmpeg THEN "Unsupported" ELSE "ToolMissing"
                       /\ cmds[r] = << >> /\ exc[r] = ""
                       /\ AtStem(r) \subseteq {src_path(r)}
                       /\ AtStem(r) \subseteq tried[r]
                       /\ delFail[r] = 0 => AtStem(r) = {}

\* C11 witness: with the tool present, a run on a .gif upload has ended with
\* the unsupported-format message received and the upload deleted.
C11_Witness ==
    \E r \in Runs :
        /\ Done(r) /\ ffmpeg /\ ext[r] = ".gif"
        /\ sent[r] = <<[kind |-> "Unsupported", ok |-> TRUE]>>
        /\ tried[r] = {src_path(r)} /\ AtStem(r) = {}

\* C12 (as claimed): when make_archive fails, the slicer raises, so that the
\* handler is in its slicing-failure branch with no value returned to it,
\* and the image directory is as the renders left it.
C12_ArchiveErrorPropagates ==
    \A r \in Runs :
        exc[r] = "ArchiveError"
            => /\ archive_path[r] = "unset"
               /\ pc[r] \in {"slice_cleanup", "ans_slice_err", "done"}
               /\ pc[r] = "slice_cleanup"
                    => \A i \in 1..NParts : Read(fs, GifPath(stem[r], i)).t = "gif"

\* The applications of the terminator patch that returned.
Returned(k) == fix_log[k].ret # "raise"

\* C13: the terminator patch is idempotent: patching a patched content
\* changes nothing, and of two applications in a row that both return, the
\* second leaves the bytes of the first and returns False.
C13_PatchIdempotent ==
    /\ FixedBytes(FixedBytes(gif_bytes)) = FixedBytes(gif_bytes)
    /\ FixReturn(FixedBytes(gif_bytes)) = "False"
    /\ \A k \in 2..Len(fix_log) :
        Returned(k - 1) /\ Returned(k)
            => /\ fix_log[k].after = fix_log[k - 1].after
               /\ fix_log[k].ret = "False"

\* C13 witness: a file ending in 0x3B was patched twice; the first call
\* returned True, the second False.
C13_Witness ==
    /\ Len(fix_log) = 2
    /\ fix_log[1].ret = "True" /\ fix_log[2].ret = "False"
    /\ Len(fix_log[1].before) > 1

\* C14: an application of the terminator patch keeps the length of the
\* file and every byte but the last; when it returns, the last byte is
\* 0x21 and the result True if the last byte was 0x3B, and otherwise the
\* content is the same and the result False, an empty file included.
C14_PatchFrame ==
    \A k \in 1..Len(fix_log) :
        LET b == fix_log[k].before
            a == fix_log[k].after
        IN /\ Len(a) = Len(b)
           /\ \A i \in 1..(Len(b) - 1) : a[i] = b[i]
           /\ Returned(k)
                => IF Len(b) > 0 /\ b[Len(b)] = GifTrailer
                   THEN a[Len(a)] = ExtIntroducer /\ fix_log[k].ret = "True"
                   ELSE a = b /\ fix_log[k].ret = "False"

\* C14 witness: a file of several bytes ending in 0x3B was patched, and an
\* application to the result returned False.
C14_Witness ==
    \E k \in 1..Len(fix_log) :
        /\ Len(fix_log[k].before) > 1
        /\ fix_log[k].ret = "True"
        /\ fix_log[k].before[1] = GifTrailer
        /\ k < Len(fix_log) /\ Returned(k + 1)

\* C15: an error of the terminator patch never fails a render: after it
\* the slicer goes on to the next render, or to archiving after the
\* fifth; a render fails only when its encode failed.
C15_PatchErrorSwallowed ==
    \A r \in Runs :
        LET g == GifCmds(r)
        IN /\ exc[r] # "PatchError"
           /\ \A k \in 1..Len(g) :
                g[k].fix = "raise"
                    => \/ k < Len(g)
                       \/ k < NParts /\ pc[r] = "sl_gif" /\ idx[r] = k
                       \/ k = NParts /\ pc[r] \notin {"sl_gif", "slice_cleanup",
                                                     "ans_slice_err", "escaped"}
           /\ exc[r] = "RenderError" => Len(g) > 0 /\ ~g[Len(g)].ok

\* C15 witness: a run delivered its archive although the terminator patch
\* of one of its renders raised.
C15_Witness ==
    \E r \in Runs :
        /\ Done(r) /\ delivered[r].t = "zip"
        /\ \E k \in 1..Len(GifCmds(r)) : GifCmds(r)[k].fix = "raise"

\* What shutil.copy2 makes of the contents c when run r copies them.
CopyOf(c, r) == [c EXCEPT !.by = r]

\* C16 (as claimed): prepare_and_resize_copy never writes its source; until
\* the encode has succeeded the copy holds the bytes of the source; when
\* the encode or the replace fails, the temp file is gone and the function
\* raises with the copy still holding the bytes of the source; when it
\* returns for an .mp4, the copy is the rescaled clip; a file that is no
\* .mp4 is copied and returned with no encode.
C16_TempThenReplace ==
    LET src == src_path(1)
        dest == PreparedDest(stem[1], ext[1])
        tmp_out == TmpOutPath(stem[1])
    IN /\ Exists(fs, src) => fs[src].by = 0
       /\ pc[1] # "prep_copy" /\ exc[1] # "CopyError" => Exists(fs, src)
       /\ pc[1] \in {"prep_resize", "prep_replace", "prep_rm_tmp"}
            => /\ Read(fs, dest) = CopyOf(fs[src], 1)
               /\ ext[1] = ".mp4"
       /\ pc[1] = "prep_rm_tmp" => exc[1] \in {"RescaleError", "ReplaceError"}
       /\ pc[1] = "prep_cleanup" /\ exc[1] \in {"RescaleError", "ReplaceError"}
            => /\ Read(fs, dest) = CopyOf(fs[src], 1)
               /\ ~Exists(fs, tmp_out)
       /\ pc[1] = "ans_prepared"
            => /\ exc[1] = "" /\ ~Exists(fs, tmp_out)
               /\ Read(fs, dest) =
                    IF ext[1] = ".mp4"
                    THEN Vid(ScaleW(fs[src].w), ScaleH(fs[src].w, fs[src].h), 0, 1)
                    ELSE CopyOf(fs[src], 1)

\* C16 (amended): the same, except that after a failed encode or replace
\* the deletion of the temp file is attempted once, and the temp file is
\* gone unless that deletion failed.
C16_TempThenReplaceAttempted ==
    LET src == src_path(1)
        dest == PreparedDest(stem[1], ext[1])
        tmp_out == TmpOutPath(stem[1])
    IN /\ Exists(fs, src) => fs[src].by = 0
       /\ pc[1] # "prep_copy" /\ exc[1] # "CopyError" => Exists(fs, src)
       /\ pc[1] \in {"prep_resize", "prep_replace", "prep_rm_tmp"}
            => /\ Read(fs, dest) = CopyOf(fs[src], 1)
               /\ ext[1] = ".mp4"
       /\ pc[1] = "prep_rm_tmp" => exc[1] \in {"RescaleError", "ReplaceError"}
       /\ pc[1] = "prep_cleanup" /\ exc[1] \in {"RescaleError", "ReplaceError"}
            => /\ Read(fs, dest) = CopyOf(fs[src], 1)
               /\ Exists(fs, tmp_out) => tmp_out \in tried[1] /\ delFail[1] = 1
               /\ delFail[1] = 0 => ~Exists(fs, tmp_out)
       /\ pc[1] = "ans_prepared"
            => /\ exc[1] = "" /\ ~Exists(fs, tmp_out)
               /\ Read(fs, dest) =
                    IF ext[1] = ".mp4"
                    THEN Vid(ScaleW(fs[src].w), ScaleH(fs[src].w, fs[src].h), 0, 1)
                    ELSE CopyOf(fs[src], 1)

\* C16 witness: the encode failed after it had begun to write the temp
\* file; the function has deleted the temp file and raised.
C16_Witness ==
    /\ pc[1] = "prep_cleanup" /\ exc[1] = "RescaleError"
    /\ TmpOutPath(stem[1]) \in tried[1] /\ delFail[1] = 0
    /\ Read(fs, PreparedPath(stem[1])).t = "vid"

\* C17 (as claimed): the output of the rescaler for a clip at most 750 wide
\* has the width and the height of the clip.
C17_NarrowUnchanged ==
    scale_out[1] = "ok" /\ scale_in[1] <= 750
        => <<scale_out[2], scale_out[3]>> = scale_in

\* C18: the output of the rescaler for a clip wider than 750 is 750 wide,
\* of even height, and its height is within one unit of ih * 750 / iw.
C18_WideScaledTo750 ==
    scale_out[1] = "ok" /\ scale_in[1] > 750
        => LET iw == scale_in[1]
               ih == scale_in[2]
               h == scale_out[3]
           IN /\ scale_out[2] = 750
              /\ h % 2 = 0
              /\ h * iw - ih * 750 <= iw
              /\ ih * 750 - h * iw <= iw

\* C18 witness: a 1920x1080 clip was rescaled to 750x422.
C18_Witness == scale_in = <<1920, 1080>> /\ scale_out = <<"ok", 750, 422>>

\* Where a run stands once its slicer has been called, and once archiving
\* has begun.
SlicerPcs == {"sl_probe", "sl_crop", "sl_replace", "sl_mkdir", "sl_gif",
              "sl_zip", "sl_rmtree"}
Archiving(r) == pc[r] \in {"sl_zip", "sl_rmtree"} \/ archive_path[r] # "unset"

\* C19: the stages of a run are gated on success and run one at a time:
\* the slicer is called only after prepare_and_resize_copy returned; the
\* commands of a slicer are issued in the order crop 1..5, render 1..5, each
\* after the one before it succeeded, so that a failed command is the last;
\* archiving begins only after the fifth render succeeded.
C19_StagesSequential ==
    \A r \in Runs :
        LET c == cmds[r]
        IN /\ pc[r] \in SlicerPcs \/ c # << >>
                => \E k \in 1..Len(sent[r]) : sent[r][k].kind = "Prepared"
           /\ \A k \in 1..Len(c) :
                /\ k <= 2 * NParts
                /\ c[k].op = IF k <= NParts THEN "crop" ELSE "gif"
                /\ c[k].part = IF k <= NParts THEN k ELSE k - NParts
                /\ k > 1 => c[k - 1].ok
           /\ pc[r] = "sl_crop" => Len(c) = idx[r]
           /\ pc[r] = "sl_gif" => Len(c) = NParts + idx[r]
           /\ pc[r] \in {"sl_replace", "sl_mkdir"} => Len(c) = NParts /\ c[NParts].ok
           /\ Archiving(r) => Len(c) = 2 * NParts /\ c[2 * NParts].ok

\* C19 witness: the five crops and the five renders of a run have
\* succeeded in turn, and its archiving is about to begin.
C19_Witness ==
    \E r \in Runs :
        /\ pc[r] = "sl_zip" /\ Len(cmds[r]) = 2 * NParts
        /\ \A k \in 1..(2 * NParts) : cmds[r][k].ok

\* C20 (as claimed): a run deletes an artifact only once it has aborted or
\* its archive has been written; when it has ended after a stage failed,
\* every file it wrote that is still there had its deletion attempted; and
\* no deletion makes the run end by an exception.
C20_DeleteAfterConsumers ==
    \A r \in Runs :
        /\ tried[r] # {}
            => \/ exc[r] # "" \/ ~ffmpeg \/ ext[r] # ".mp4"
               \/ archive_path[r] = "Path"
        /\ Done(r) /\ exc[r] # "" => WrittenBy(r) \subseteq tried[r]
        /\ pc[r] # "escaped"

\* Where a run stands between the deletions of a failure branch and the
\* notifier call that follows them (bot.py:287, 382).
AfterCleanup(r) == pc[r] \in {"ans_slice_err", "ans_prep_err"}
\* The entries left at a run's paths, a directory counted once.
LeftEntries(r) == {q \in AtStem(r) : q[3] \notin GifSufs}
LastCall(r) == sent[r][Len(sent[r])]

\* C21: in the cleanup after a failed prepare or a failed slicing every
\* deletion is attempted on its own: whichever deletions fail, every entry
\* of the run that is still there was attempted, what is left is exactly
\* what failed to be deleted, and the failure message is then handed to the
\* notifier as the run's last call.
C21_DeletionsIndependent ==
    \A r \in Runs :
        /\ AfterCleanup(r)
            => /\ exc[r] # ""
               /\ AtStem(r) \subseteq tried[r]
               /\ Cardinality(LeftEntries(r)) = delFail[r]
        /\ Done(r) /\ exc[r] \notin {"", "ArchiveError"}
            => /\ Len(sent[r]) > 0
               /\ LastCall(r).kind \in {"SliceError", "PrepError"}

\* C21 witness: after a failed render the deletions of two entries failed;
\* the sliced copy, the bands, the image directory, the prepared copy and
\* the upload were all attempted, and the failure message was received.
C21_Witness ==
    \E r \in Runs :
        /\ Done(r) /\ exc[r] = "RenderError" /\ delFail[r] = 2
        /\ {SlicedPath(stem[r]), PartOut(stem[r], 2), PartOut(stem[r], 5),
            GifDirPath(stem[r]), PreparedPath(stem[r]), src_path(r)}
               \subseteq tried[r]
        /\ Cardinality(LeftEntries(r)) = 2
        /\ LastCall(r) = [kind |-> "SliceError", ok |-> TRUE]

\* C22: every run that starts eventually ends; an ended run stays ended,
\* as a success or as a failure and never both; and no step takes a run
\* back to the start or out of its stages before it has ended.
C22_RunTerminates ==
    /\ \A r \in Runs : (pc[r] = "start") ~> Done(r)
    /\ [][\A r \in Runs :
            /\ Done(r) => pc'[r] = "done" /\ exc'[r] = exc[r]
            /\ InProgress(r) => pc'[r] \notin {"idle", "hf_error", "start", "escaped"}]_vars

\* C22 witness: a run has ended after all ten commands of its slicer and
\* its four cleanups, with the archive delivered.
C22_Witness ==
    \E r \in Runs :
        /\ Done(r) /\ exc[r] = "" /\ Len(cmds[r]) = 2 * NParts
        /\ delivered[r].t = "zip" /\ delFail[r] = 0 /\ NotifyFails(r) = 0

\* C23 (as claimed): no failure message the submitter received contains
\* the path of a working file, whichever stage failed.
C23_NoPathInFailureText ==
    \A r \in Runs : \A k \in 1..Len(sent[r]) :
        sent[r][k].ok /\ sent[r][k].kind \in FailureKinds
            => ~TextHasPath(sent[r][k].kind, exc[r])

\* C24 (as claimed): on_startup returns and leaves an open session of the
\* module's own making; on_shutdown returns, closes a session that
\* on_startup made and leaves alone one that was supplied from outside; and
\* no shutdown of the module closes a session supplied from outside.
C24_SessionLifecycle ==
    \A k \in 1..Len(sess_log) :
        LET c == sess_log[k]
        IN /\ c.op = "on_startup"
                => /\ c.raised = ""
                   /\ c.after.origin = "on_startup" /\ ~c.after.closed
           /\ c.op = "on_shutdown"
                => /\ c.raised = ""
                   /\ c.before.origin = "on_startup" => c.after.closed
                   /\ c.before.origin # "on_startup" => c.after = c.before
           /\ c.op = "_main" /\ c.before.origin = "external"
                => c.after = c.before

\* The crops of a run that succeeded.
CropsDone(r) == Len(SelectSeq(CropCmds(r), LAMBDA c : c.ok))

\* C25: the slicer replaces its input by band 1 only after all five crops
\* succeeded.  While it crops, and when a crop has failed, the file at the
\* input path is the 750-wide clip it probed; band 1 is at the sibling
\* temp path and bands 2..5 at the sibling paths with a part suffix; every
\* band written before a failure is still there, and the slicer has
\* deleted nothing.
C25_ReplaceAfterAllBands ==
    \A r \in Runs :
        LET p == SlicedPath(stem[r])
            failed == pc[r] = "slice_cleanup" /\ exc[r] = "EncodeError"
        IN /\ pc[r] \in {"sl_crop", "sl_replace"} \/ failed
                => /\ fs[p] = Vid(CanonW, probed[r][2], 0, r)
                   /\ tried[r] = {}
                   /\ failed => CropsDone(r) < NParts
                   /\ \A k \in 1..CropsDone(r) :
                        Read(fs, <<"sliced_gifs", stem[r], PartSuf(k)>>)
                            = Vid(part_w, probed[r][2], (k - 1) * part_w, r)
           /\ Read(fs, p).w = part_w /\ Read(fs, p).by = r => CropsDone(r) = NParts

\* C25 witness: the fourth crop of a slicer has failed; its input is the
\* unsliced clip and bands 1 to 3 lie beside it.
C25_Witness ==
    \E r \in Runs :
        /\ pc[r] = "slice_cleanup" /\ exc[r] = "EncodeError"
        /\ CropsDone(r) = 3 /\ Len(CropCmds(r)) = 4
        /\ fs[SlicedPath(stem[r])].w = CanonW
        /\ {TmpFirstPath(stem[r]), PartOut(stem[r], 2), PartOut(stem[r], 3)}
                \subseteq DOMAIN fs

\* The order in which a run creates its working files: the upload, the
\* prepared copy and the temp file of its rescaling, the sliced copy, the
\* bands 1..5, the image directory, the archive.
CreatedRank(q) ==
    CASE q[1] = "gifs" -> 1
      [] q[1] = "prepared_gifs" /\ q[3] = ".mp4" -> 2
      [] q[1] = "prepared_gifs" -> 3
      [] q[3] = ".mp4" -> 4
      [] q[3] = PartSuf(1) -> 5
      [] q[3] = PartSuf(2) -> 6
      [] q[3] = PartSuf(3) -> 7
      [] q[3] = PartSuf(4) -> 8
      [] q[3] = PartSuf(5) -> 9
      [] q[3] = "_gifs" -> 10
      [] OTHER -> 11

\* C26 (as claimed): the deletions of a failed run follow the reverse order
\* of creation: whatever a statement of the cleanup deletes was created
\* after everything that the later statements delete.
C26_ReverseCreationOrder ==
    \A r \in Runs : \A i, j \in 1..Len(del_seq[r]) :
        i < j => \A a \in del_seq[r][i], b \in del_seq[r][j] :
                    CreatedRank(a) > CreatedRank(b)

\* C27: handle_file does not wait for the runs it starts: the next message
\* can be handled whatever the stages of the earlier runs; every message
\* handled led to at most one download and at most one run, for the first
\* of its animation, video and document; and a message whose document has
\* an unsupported name, or that has no media, started no run, downloaded
\* nothing and left no file.
C27_HandlerDoesNotWait ==
    \A r \in Runs :
        LET h == handled[r]
            m == h.msg
        IN /\ pc[r] = "idle" /\ (\A q \in Runs : q < r => pc[q] # "idle")
                => ENABLED HandleMessage(r)
           /\ pc[r] # "idle"
                => /\ h.tasks <= h.downloads /\ h.downloads <= 1
                   /\ h.tasks = 1 <=> pc[r] \notin {"hf_error", "hf_rejected"}
                   /\ h.chosen = IF m.anim THEN "animation"
                                 ELSE IF m.vid THEN "video"
                                 ELSE IF m.doc # "" THEN "document" ELSE "none"
                   /\ h.tasks = 1
                        => ext[r] = IF m.anim \/ m.vid THEN ".mp4" ELSE m.doc
                   /\ ~m.anim /\ ~m.vid /\ m.doc \in {"", ".txt"}
                        => /\ h.downloads = 0 /\ h.tasks = 0
                           /\ pc[r] = "hf_rejected"
                           /\ stem[r] = NoStem /\ WrittenBy(r) = {}
                           /\ cmds[r] = << >> /\ sent[r] = << >>

\* C27 witness: a message with a video and a document has started a run on
\* the video while the run of the message before it, which had an
\* animation, a video and a document, is rendering its images.
C27_Witness ==
    /\ pc[1] = "sl_gif" /\ handled[1].chosen = "animation"
    /\ handled[1].msg.vid /\ handled[1].msg.doc = ".txt"
    /\ pc[2] = "start" /\ handled[2].chosen = "video"
    /\ handled[2].msg.doc = ".gif" /\ ext[2] = ".mp4"

\* The runs on a video narrower than the canonical width.
Narrow(r) == source[r] # NoDims /\ source[r][1] < CanonW
PastWidthCheck(r) ==
    \/ pc[r] \in {"sl_crop", "sl_replace", "sl_mkdir", "sl_gif", "sl_zip",
                   "sl_rmtree", "ok_rm_src", "ans_warn_src", "ok_rm_prep",
                   "ans_warn_prep", "ok_glob", "ans_sending", "ans_doc",
                   "ans_sendfail"}
    \/ cmds[r] # << >> \/ archive_path[r] # "unset" \/ delivered[r] # NoFile
Called(r, kind) == \E k \in 1..Len(sent[r]) : sent[r][k].kind = kind

\* C28 (as claimed): with the tool present and no deletion or notifier
\* call failing, a run on a video narrower than 750 ends only by the width
\* error of the slicer, after the prepare stage succeeded, with the failure
\* message received and nothing of the run left.
C28_NarrowFailsAtWidthCheck ==
    \A r \in Runs :
        Narrow(r) /\ Done(r) /\ ffmpeg /\ delFail[r] = 0 /\ NotifyFails(r) = 0
            => /\ exc[r] = "GeometryError"
               /\ Called(r, "Prepared")
               /\ Received(r, {"SliceError"}) = 1
               /\ AtStem(r) = {}

\* C28 (amended): a run on a video narrower than 750 never passes the width
\* check of the slicer: it issues no crop, makes no archive and delivers
\* nothing, and with the tool present it ends as a failure with a failure
\* message as its last notifier call.  A source of odd width never leaves
\* the prepare stage.  When its prepare stage succeeded and the probe
\* returned, the probed width is the source's and the run fails with the
\* width error; it then attempts to delete the sliced copy, the prepared
\* copy and the upload, and leaves nothing unless a deletion failed.
C28_NarrowNeverDone ==
    \A r \in Runs :
        Narrow(r)
            => /\ ~PastWidthCheck(r)
               /\ Done(r) /\ ffmpeg
                    => /\ exc[r] \in {"CopyError", "RescaleError", "ReplaceError",
                                     "ProbeError", "GeometryError"}
                       /\ LastCall(r).kind \in {"PrepError", "SliceError"}
               /\ source[r][1] % 2 = 1
                    => /\ probed[r] = NoDims /\ ~Called(r, "Prepared")
                       /\ exc[r] \in {"", "CopyError", "RescaleError"}
               /\ probed[r] # NoDims
                    => /\ probed[r][1] = source[r][1]
                       /\ exc[r] = "GeometryError" /\ Called(r, "Prepared")
               /\ Done(r) /\ exc[r] = "GeometryError"
                    => /\ {SlicedPath(stem[r]), PreparedPath(stem[r]), src_path(r)}
                            \subseteq tried[r]
                       /\ LastCall(r).kind = "SliceError"
                       /\ delFail[r] = 0 => AtStem(r) = {}

\* C28 witness: a run on a 600x301 video was prepared and then failed at
\* the width check; the failure message was received and nothing is left.
C28_Witness ==
    \E r \in Runs :
        /\ Done(r) /\ source[r] = <<600, 301>> /\ probed[r] = <<600, 302>>
        /\ exc[r] = "GeometryError" /\ AtStem(r) = {}
        /\ LastCall(r) = [kind |-> "SliceError", ok |-> TRUE]

\* C29: image part<i>.gif is rendered from the band at offset (i-1)*150:
\* the renders are issued for the parts 1, 2, ... in turn; while the slicer
\* renders and archives, the file at its input path is band 1; every image
\* in the image directory shows the band of its index, 150 wide; and the
\* archive a run delivered holds the five images of the bands at 0, 150,
\* 300, 450 and 600.
C29_ImagesFromBands ==
    \A r \in Runs :
        /\ \A k \in 1..Len(GifCmds(r)) : GifCmds(r)[k].part = k
        /\ pc[r] \in {"sl_mkdir", "sl_gif", "sl_zip", "sl_rmtree"}
            => fs[SlicedPath(stem[r])] = Vid(150, probed[r][2], 0, r)
        /\ \A i \in 1..NParts :
             LET g == Read(fs, GifPath(stem[r], i))
             IN g.t = "gif" => g = Gif((i - 1) * 150, 150, probed[r][2], r)
        /\ delivered[r] # NoFile
            => delivered[r] = Zip({<<i, (i - 1) * 150, r>> : i \in 1..NParts}, r)

\* C29 witness: a run has ended and delivered an archive in which part1.gif
\* shows the band at 0 and part5.gif the band at 600.
C29_Witness ==
    \E r \in Runs :
        /\ Done(r) /\ delivered[r].t = "zip"
        /\ <<1, 0, r>> \in delivered[r].parts
        /\ <<5, 600, r>> \in delivered[r].parts
        /\ Len(GifCmds(r)) = NParts

====
